---- MODULE Spec2Model ----
(***************************************************************************)
(* Settings resolution and export (settings.py), the application entry     *)
(* point (app.py) and the pipeline's Synth step (test/test_stack.py).      *)
(*                                                                         *)
(* Python values are records [ty, s]: the value's type and its str().      *)
(* A dict is a function whose DOMAIN is the dict's key set.                *)
(***************************************************************************)
EXTENDS Integers, Sequences, FiniteSets, TLC

VARIABLES
    run,      \* which entry point of the repository this process is
    pc,       \* position of the process
    osenv,    \* os.environ: variable name -> value, None when unset
    ctx,      \* the aws_cdk.App's context: key -> value, None when absent
    modns,    \* names bound in the namespace of module `settings`
    cls,      \* the settings class the process has defined
    obj,      \* the settings object (or the failure of its construction)
    exports,  \* the mappings returned by the calls of export_variables()
    steps,    \* app.py: the steps of the application that have run
    gitTag,   \* Synth step: the value of GIT_TAG in the build environment
    cmdIdx,   \* Synth step: index of the next command
    ran       \* Synth step: the programs the commands have run, in order

vars == <<run, pc, osenv, ctx, modns, cls, obj, exports, steps, gitTag, cmdIdx, ran>>

----------------------------------------------------------------------------
(* Bounds *)

MaxCalls == 2

----------------------------------------------------------------------------
(* Python values *)

None == [ty |-> "NoneType", s |-> "None"]
Str(x) == [ty |-> "str", s |-> x]
Int0 == [ty |-> "int", s |-> "0"]
False == [ty |-> "bool", s |-> "False"]

EmptyDict == [k \in {} |-> None]

\* bool(v) of Python
Truthy(v) == v # None /\ v # Str("") /\ v # Int0 /\ v # False

\* values an environment variable may hold
EnvVals == {None, Str("123456789012"), Str("default_value")}

\* values a context key may hold (try_get_context returns None when absent)
CtxVals == {None, Str(""), Int0, False, Str("v1.2.0")}

----------------------------------------------------------------------------
(* ExportMode *)

ExportMode == {"ALWAYS", "IF_NOT_DEFAULT", "IF_NOT_NONE", "NEVER"}

\* a field declared without the export_mode property
Unset == "unset"

----------------------------------------------------------------------------
(* Classes.  A class is [name, env_prefix, fields]; a field is            *)
(* [default, required, export_mode].                                       *)

NoClass == [name |-> "", env_prefix |-> "", fields |-> EmptyDict]

FieldInfo(default, required, mode) ==
    [default |-> default, required |-> required, export_mode |-> mode]

\* class Settings(CdkSettings): the defaults are read from os.environ when
\* the class body runs.
Settings(env) ==
    [name |-> "Settings",
     env_prefix |-> "cdk_",
     fields |-> [f \in {"account", "region"} |->
                   IF f = "account"
                   THEN FieldInfo(env["CDK_DEFAULT_ACCOUNT"], FALSE, "ALWAYS")
                   ELSE FieldInfo(env["CDK_DEFAULT_REGION"], FALSE, "ALWAYS")]]

\* A subclass of CdkSettings declared as the docstring of export_variables
\* shows: one required field, one field with a default.
Subclass(m1, m2, d) ==
    [name |-> "Subclass",
     env_prefix |-> "",
     fields |-> [f \in {"required_var", "var_with_default"} |->
                   IF f = "required_var"
                   THEN FieldInfo(None, TRUE, m1)
                   ELSE FieldInfo(d, FALSE, m2)]]

\* names bound by the module body of settings.py
SettingsModuleNames ==
    {"os", "App", "Enum", "BaseSettings", "Field", "Dict", "Mapping", "Any",
     "context_settings", "ExportMode", "CdkSettings", "Settings"}

----------------------------------------------------------------------------
(* Environment-variable names *)

\* str.lower() on the names that occur
Lower(n) ==
    CASE n = "CDK_ACCOUNT" -> "cdk_account"
      [] n = "CDK_REGION" -> "cdk_region"
      [] n = "CDK_DEFAULT_ACCOUNT" -> "cdk_default_account"
      [] n = "CDK_DEFAULT_REGION" -> "cdk_default_region"
      [] n = "REQUIRED_VAR" -> "required_var"
      [] n = "VAR_WITH_DEFAULT" -> "var_with_default"
      [] OTHER -> n

\* schema()['properties'][f]['env_names'] holds one name: the class's
\* env_prefix followed by the field name, lower-cased.
env_name(c, f) == Lower(c.env_prefix \o f)

----------------------------------------------------------------------------
(* Settings sources *)

\* app.node.try_get_context(key): the value, None when the key is absent
try_get_context(key) == ctx[key]

\* the keys of schema()['properties']: the declared fields
schema_properties(c) == DOMAIN c.fields

\* the variant of the context source that tests the value's truthiness
context_settings_truthy(c) ==
    [attr \in {a \in schema_properties(c) : Truthy(try_get_context(a))} |->
        try_get_context(attr)]

context_settings(c) ==
    [attr \in {a \in schema_properties(c) : try_get_context(a) # None} |->
        try_get_context(attr)]

\* CdkSettings.__init__ passes no keyword argument on to BaseSettings
init_kwargs == EmptyDict

init_settings(c) == init_kwargs

\* os.environ with lower-cased keys, as the case-insensitive environment
\* source reads it; unset variables are no keys of it
env_vars ==
    [k \in {Lower(n) : n \in {m \in DOMAIN osenv : osenv[m] # None}} |->
        osenv[CHOOSE n \in DOMAIN osenv : osenv[n] # None /\ Lower(n) = k]]

env_settings(c) ==
    [f \in {g \in schema_properties(c) : env_name(c, g) \in DOMAIN env_vars} |->
        env_vars[env_name(c, f)]]

\* no Config of the repository sets secrets_dir: the source yields nothing
file_secret_settings(c) == EmptyDict

\* a precedence that puts the environment before the context
customise_sources_env_first ==
    <<"init_settings", "env_settings", "context_settings", "file_secret_settings">>

customise_sources ==
    <<"init_settings", "context_settings", "env_settings", "file_secret_settings">>

source(name, c) ==
    CASE name = "init_settings" -> init_settings(c)
      [] name = "context_settings" -> context_settings(c)
      [] name = "env_settings" -> env_settings(c)
      [] name = "file_secret_settings" -> file_secret_settings(c)

\* dict.update: the keys of `upd` override those of `base`
deep_update(base, upd) ==
    [k \in DOMAIN base \cup DOMAIN upd |->
        IF k \in DOMAIN upd THEN upd[k] ELSE base[k]]

\* deep_update(*reversed(sources)) from the i-th source on: the sources are
\* applied last to first, so an earlier source overrides a later one
RECURSIVE merge_from(_, _)
merge_from(i, c) ==
    IF i > Len(customise_sources) THEN EmptyDict
    ELSE deep_update(merge_from(i + 1, c), source(customise_sources[i], c))

build_values(c) == merge_from(1, c)

----------------------------------------------------------------------------
(* Validation *)

\* the validator of a `str` field: a str is kept, an int (a bool is one) is
\* replaced by its str()
str_validator(v) == IF v.ty \in {"str", "int", "bool"} THEN Str(v.s) ELSE v

\* a field given no value that takes None, whatever it declares
field_value_no_default(c, f, input) ==
    IF f \in DOMAIN input THEN str_validator(input[f]) ELSE None

\* the value of field f: the validated input, the declared default when no
\* source gives one
field_value(c, f, input) ==
    IF f \in DOMAIN input THEN str_validator(input[f]) ELSE c.fields[f].default

\* a validation that never reports a missing field
missing_fields_none(c, input) == {}

\* the required fields no source gives a value: each is an error that names
\* the field
missing_fields(c, input) ==
    {f \in schema_properties(c) : f \notin DOMAIN input /\ c.fields[f].required}

NoObject == [status |-> "none", values |-> EmptyDict, errors |-> {}]

\* Settings(app): either the object, or the failure with the fields it names
construct(c) ==
    LET input == build_values(c)
        errors == missing_fields(c, input)
    IN  IF errors = {}
        THEN [status |-> "ok",
              values |-> [f \in schema_properties(c) |-> field_value(c, f, input)],
              errors |-> {}]
        ELSE [status |-> "error", values |-> EmptyDict, errors |-> errors]

----------------------------------------------------------------------------
(* export_variables *)

\* setting_schema.get('default'): the declared default of a str field, None
\* for a field that declares none
schema_default(c, f) == IF c.fields[f].required THEN None ELSE c.fields[f].default

\* an if/elif chain that never compares with the default
is_exported_no_compare(c, f, value) ==
    LET mode == c.fields[f].export_mode
    IN  IF mode = "ALWAYS" THEN TRUE
        ELSE IF mode = "IF_NOT_DEFAULT" THEN TRUE
        ELSE IF mode = "IF_NOT_NONE" /\ value # None THEN TRUE
        ELSE FALSE

\* the if/elif chain of the loop body: whether the field is exported
is_exported(c, f, value) ==
    LET mode == c.fields[f].export_mode
    IN  IF mode = "ALWAYS" THEN TRUE
        ELSE IF mode = "IF_NOT_DEFAULT" /\ value # schema_default(c, f) THEN TRUE
        ELSE IF mode = "IF_NOT_NONE" /\ value # None THEN TRUE
        ELSE FALSE

\* a key built from the upper-cased name of the variable that holds the
\* field's default
export_key_default_var(c, f) ==
    IF f = "account" THEN "CDK_DEFAULT_ACCOUNT"
    ELSE IF f = "region" THEN "CDK_DEFAULT_REGION"
    ELSE env_name(c, f)

\* the key of an exported field: next(iter(setting_schema['env_names']))
export_key(c, f) == env_name(c, f)

\* self.export_variables() on the object with the field values `values`
export_variables(c, values) ==
    LET exported == {f \in schema_properties(c) : is_exported(c, f, values[f])}
    IN  [k \in {export_key(c, f) : f \in exported} |->
            values[CHOOSE f \in exported : export_key(c, f) = k]]

----------------------------------------------------------------------------
(* The Synth step of the pipeline: CodeBuild runs the commands in order,   *)
(* each in a shell, and stops at the first one that fails.                 *)

\* the commands of the ShellStep, as the shell's tokens
commands ==
    << <<"if", "[ -n \"$GIT_TAG\" ]", ";", "git checkout tags/$GIT_TAG", ";", "fi">>,
       <<"npm install -g aws-cdk">>,
       <<"pip install -r requirements.txt">>,
       <<"cdk synth">> >>

\* the shell's parse of a command: `if list; then list; fi`
sh_parses(tokens) ==
    IF tokens[1] = "if"
    THEN /\ tokens[Len(tokens)] = "fi"
         /\ \E i \in 3..(Len(tokens) - 2) : tokens[i] = "then"
    ELSE TRUE

\* what a command that parses runs: [ -n "$GIT_TAG" ] holds for a non-empty tag
sh_runs(tokens, tag) ==
    IF tokens[1] = "if"
    THEN IF tag # "" THEN <<"git checkout">> ELSE <<>>
    ELSE <<tokens[1]>>

----------------------------------------------------------------------------
(* The stack definition *)

\* the attributes TestStack.__init__ reads from `settings`
TestStackReads ==
    {"git_repo_owner", "git_repo_name", "git_repo_branch", "codestar_connection",
     "git_repo_tag"}

----------------------------------------------------------------------------
(* The processes *)

\* a process that imports settings.py and constructs Settings, one that
\* declares a subclass of CdkSettings and constructs it, a run of app.py, and
\* a run of the Synth step's commands
Runs == {"settings_client", "subclass_client", "app", "codebuild"}

EnvVarsOf(r) ==
    CASE r \in {"settings_client", "app"} ->
            {"CDK_DEFAULT_ACCOUNT", "CDK_DEFAULT_REGION", "CDK_ACCOUNT", "CDK_REGION"}
      [] r = "subclass_client" -> {"REQUIRED_VAR", "VAR_WITH_DEFAULT"}
      [] OTHER -> {}

ContextKeysOf(r) ==
    CASE r \in {"settings_client", "app"} -> {"account", "region"}
      [] r = "subclass_client" -> {"required_var", "var_with_default"}
      [] OTHER -> {}

GitTags == {"", "v1.2.0"}

Init ==
    /\ run \in Runs
    /\ pc = CASE run = "app" -> "app:4"
              [] run = "codebuild" -> "build"
              [] OTHER -> "start"
    /\ osenv \in [EnvVarsOf(run) -> EnvVals]
    /\ ctx \in [ContextKeysOf(run) -> CtxVals]
    /\ modns = {}
    /\ cls = NoClass
    /\ obj = NoObject
    /\ exports = <<>>
    /\ steps = <<>>
    /\ gitTag \in (IF run = "codebuild" THEN GitTags ELSE {""})
    /\ cmdIdx = 1
    /\ ran = <<>>

\* `import settings`: the module body runs and defines class Settings
ImportSettings ==
    /\ run = "settings_client"
    /\ pc = "start"
    /\ modns' = SettingsModuleNames
    /\ cls' = Settings(osenv)
    /\ pc' = "defined"
    /\ UNCHANGED <<run, osenv, ctx, obj, exports, steps, gitTag, cmdIdx, ran>>

\* `import settings`, then a class statement deriving from CdkSettings
DefineSubclass(m1, m2, d) ==
    /\ run = "subclass_client"
    /\ pc = "start"
    /\ modns' = SettingsModuleNames
    /\ cls' = Subclass(m1, m2, d)
    /\ pc' = "defined"
    /\ UNCHANGED <<run, osenv, ctx, obj, exports, steps, gitTag, cmdIdx, ran>>

\* CdkSettings.__init__(app): an exception leaves no object
Construct ==
    /\ pc = "defined"
    /\ obj' = construct(cls)
    /\ pc' = IF obj'.status = "ok" THEN "constructed" ELSE "failed"
    /\ UNCHANGED <<run, osenv, ctx, modns, cls, exports, steps, gitTag, cmdIdx, ran>>

\* a call of export_variables() that resets the fields it has exported
ExportVariables_draining ==
    /\ pc = "constructed"
    /\ Len(exports) < MaxCalls
    /\ exports' = Append(exports, export_variables(cls, obj.values))
    /\ obj' = [obj EXCEPT !.values =
                 [f \in DOMAIN obj.values |->
                    IF is_exported(cls, f, obj.values[f]) THEN None ELSE obj.values[f]]]
    /\ UNCHANGED <<run, pc, osenv, ctx, modns, cls, steps, gitTag, cmdIdx, ran>>

\* a call of export_variables() on the object
ExportVariables ==
    /\ pc = "constructed"
    /\ Len(exports) < MaxCalls
    /\ exports' = Append(exports, export_variables(cls, obj.values))
    /\ UNCHANGED <<run, pc, osenv, ctx, modns, cls, obj, steps, gitTag, cmdIdx, ran>>

\* app.py line 4: from settings import Settings
AppImportSettings ==
    /\ run = "app"
    /\ pc = "app:4"
    /\ modns' = SettingsModuleNames
    /\ cls' = Settings(osenv)
    /\ steps' = Append(steps, "app:4")
    /\ pc' = "app:5"
    /\ UNCHANGED <<run, osenv, ctx, obj, exports, gitTag, cmdIdx, ran>>

\* app.py line 5: from test.test_stack import TestStack; the body of
\* test_stack.py starts to run
AppImportTestStack ==
    /\ run = "app"
    /\ pc = "app:5"
    /\ steps' = Append(steps, "app:5")
    /\ pc' = "test_stack:8"
    /\ UNCHANGED <<run, osenv, ctx, modns, cls, obj, exports, gitTag, cmdIdx, ran>>

\* test_stack.py line 8: from settings import settings.  The name is looked
\* up in the module settings; a name it does not bind is an ImportError,
\* which no one catches: the process ends.
TestStackImportSettings ==
    /\ run = "app"
    /\ pc = "test_stack:8"
    /\ pc' = IF "settings" \in modns THEN "test_stack:11" ELSE "ImportError"
    /\ UNCHANGED <<run, osenv, ctx, modns, cls, obj, exports, steps, gitTag, cmdIdx, ran>>

\* CodeBuild runs the next command of the Synth step
RunCommand ==
    /\ run = "codebuild"
    /\ pc = "build"
    /\ cmdIdx <= Len(commands)
    /\ IF sh_parses(commands[cmdIdx])
       THEN /\ ran' = ran \o sh_runs(commands[cmdIdx], gitTag)
            /\ cmdIdx' = cmdIdx + 1
            /\ pc' = IF cmdIdx = Len(commands) THEN "SUCCEEDED" ELSE "build"
       ELSE /\ pc' = "FAILED"
            /\ UNCHANGED <<ran, cmdIdx>>
    /\ UNCHANGED <<run, osenv, ctx, modns, cls, obj, exports, steps, gitTag>>

Next ==
    \/ ImportSettings
    \/ \E m1 \in ExportMode \cup {Unset}, m2 \in ExportMode \cup {Unset},
          d \in {None, Str("default_value")} : DefineSubclass(m1, m2, d)
    \/ Construct
    \/ ExportVariables
    \/ AppImportSettings
    \/ AppImportTestStack
    \/ TestStackImportSettings
    \/ RunCommand

Spec == Init /\ [][Next]_vars

----------------------------------------------------------------------------
(* Properties *)

\* the environment variable the environment source reads for a field
EnvVarOf(f) ==
    CASE f = "account" -> "CDK_ACCOUNT"
      [] f = "region" -> "CDK_REGION"
      [] f = "required_var" -> "REQUIRED_VAR"
      [] f = "var_with_default" -> "VAR_WITH_DEFAULT"

\* a source value as the str field holds it
AsStr(v) == [ty |-> "str", s |-> v.s]

Constructed == obj.status = "ok"

\* C1: a constructed object holds, for every field, the value of the first
\* source in the order constructor arguments > context > environment >
\* secret files that gives a non-null value (the constructor passes no
\* argument and no secrets directory is configured, so these two give none);
\* a field in both the context and the environment holds the context value.
C1_Precedence ==
    Constructed =>
        \A f \in DOMAIN obj.values :
            /\ ctx[f] # None => obj.values[f] = AsStr(ctx[f])
            /\ (ctx[f] = None /\ osenv[EnvVarOf(f)] # None) =>
                    obj.values[f] = osenv[EnvVarOf(f)]

C1_Witness ==
    /\ Constructed
    /\ \E f \in DOMAIN obj.values :
          /\ ctx[f] = Str("v1.2.0")
          /\ osenv[EnvVarOf(f)] = Str("123456789012")
          /\ obj.values[f] = Str("v1.2.0")

\* the policy condition of a field, from its mode, its value and its
\* declared default
PolicyHolds(mode, value, default) ==
    \/ mode = "ALWAYS"
    \/ mode = "IF_NOT_DEFAULT" /\ value # default
    \/ mode = "IF_NOT_NONE" /\ value # None

\* C2: in every mapping export_variables() returned, a field's alias is a key
\* iff the field's export policy holds for its current value (ALWAYS: always;
\* IF_NOT_DEFAULT: the value differs from the declared default; IF_NOT_NONE:
\* the value is not None; NEVER or no policy: never), and the exported value
\* is the field's current value.
C2_ExportPolicy ==
    \A i \in 1..Len(exports) : \A f \in DOMAIN obj.values :
        LET key == export_key(cls, f)
            info == cls.fields[f]
        IN  /\ key \in DOMAIN exports[i]
                <=> PolicyHolds(info.export_mode, obj.values[f], info.default)
            /\ key \in DOMAIN exports[i] => exports[i][key] = obj.values[f]

C2_Witness ==
    /\ Len(exports) >= 1
    /\ cls.name = "Subclass"
    /\ cls.fields["var_with_default"].export_mode = "IF_NOT_DEFAULT"
    /\ cls.fields["var_with_default"].default = Str("default_value")
    /\ osenv["VAR_WITH_DEFAULT"] = Str("default_value")
    /\ obj.values["var_with_default"] = Str("default_value")
    /\ "var_with_default" \notin DOMAIN exports[1]
    /\ cls.fields["required_var"].export_mode = "IF_NOT_NONE"
    /\ "required_var" \in DOMAIN exports[1]

\* C3: when a required field gets no value from any source, construction
\* fails with an error that names the field, and there is no object.
C3_RequiredMissingFails ==
    pc \in {"constructed", "failed"} =>
        \A f \in DOMAIN cls.fields :
            (cls.fields[f].required /\ ctx[f] = None /\ osenv[EnvVarOf(f)] = None) =>
                /\ pc = "failed"
                /\ obj.status = "error"
                /\ f \in obj.errors
                /\ obj.values = EmptyDict

C3_Witness ==
    /\ pc = "failed"
    /\ cls.name = "Subclass"
    /\ ctx["required_var"] = None
    /\ osenv["REQUIRED_VAR"] = None
    /\ obj.errors = {"required_var"}

Falsy == {Str(""), Int0, False}

\* C4: a context value that is falsy but not None is a value of the context
\* source and wins over the environment; only None falls through to the
\* next source.
C4_FalsyContextKept ==
    Constructed =>
        \A f \in DOMAIN obj.values :
            /\ ctx[f] \in Falsy =>
                    /\ f \in DOMAIN context_settings(cls)
                    /\ context_settings(cls)[f] = ctx[f]
                    /\ obj.values[f] = AsStr(ctx[f])
            /\ ctx[f] = None =>
                    /\ f \notin DOMAIN context_settings(cls)
                    /\ osenv[EnvVarOf(f)] # None => obj.values[f] = osenv[EnvVarOf(f)]

C4_Witness ==
    /\ Constructed
    /\ \E f \in DOMAIN obj.values :
          /\ ctx[f] = Int0
          /\ osenv[EnvVarOf(f)] = Str("123456789012")
          /\ obj.values[f] = Str("0")
    /\ \E f \in DOMAIN obj.values :
          /\ ctx[f] = Str("")
          /\ osenv[EnvVarOf(f)] = Str("default_value")
          /\ obj.values[f] = Str("")

\* the variable whose value at class definition is the default of a field
\* of Settings
DefaultVarOf(f) == IF f = "account" THEN "CDK_DEFAULT_ACCOUNT" ELSE "CDK_DEFAULT_REGION"

\* C5: a field with a declared default that no source gives a value holds
\* the declared default; for account and region of Settings the default is
\* the value CDK_DEFAULT_ACCOUNT / CDK_DEFAULT_REGION had when the class
\* was defined.
C5_DefaultWhenNoSource ==
    Constructed =>
        \A f \in DOMAIN obj.values :
            (~cls.fields[f].required /\ ctx[f] = None /\ osenv[EnvVarOf(f)] = None) =>
                /\ obj.values[f] = cls.fields[f].default
                /\ cls.name = "Settings" => obj.values[f] = osenv[DefaultVarOf(f)]
                /\ cls.name = "Subclass" =>
                        obj.values[f] \in {None, Str("default_value")}

C5_Witness ==
    /\ Constructed
    /\ cls.name = "Settings"
    /\ ctx["account"] = None
    /\ osenv["CDK_ACCOUNT"] = None
    /\ osenv["CDK_DEFAULT_ACCOUNT"] = Str("123456789012")
    /\ obj.values["account"] = Str("123456789012")

AccountIsSet ==
    /\ Constructed
    /\ cls.name = "Settings"
    /\ obj.values["account"] = Str("123456789012")

\* C6 (as stated): for Settings, account with policy ALWAYS and value
\* "123456789012" makes every mapping export_variables() returns hold
\* CDK_DEFAULT_ACCOUNT -> "123456789012".
C6_AsClaimed ==
    AccountIsSet =>
        \A i \in 1..Len(exports) :
            /\ "CDK_DEFAULT_ACCOUNT" \in DOMAIN exports[i]
            /\ exports[i]["CDK_DEFAULT_ACCOUNT"] = Str("123456789012")

\* C6 (amended): for Settings, account with policy ALWAYS and value
\* "123456789012" makes every mapping export_variables() returns hold
\* cdk_account -> "123456789012": the key is the field's environment
\* variable name, the prefix cdk_ followed by the field name, in lower case;
\* CDK_DEFAULT_ACCOUNT is no key of the mapping.
C6_ExportsPrefixedName ==
    AccountIsSet =>
        \A i \in 1..Len(exports) :
            /\ "cdk_account" \in DOMAIN exports[i]
            /\ exports[i]["cdk_account"] = Str("123456789012")
            /\ "CDK_DEFAULT_ACCOUNT" \notin DOMAIN exports[i]

C6_Witness ==
    /\ AccountIsSet
    /\ cls.fields["account"].export_mode = "ALWAYS"
    /\ Len(exports) >= 1
    /\ DOMAIN exports[1] = {"cdk_account", "cdk_region"}

InOrder(a, b, c) ==
    \E i, j, k \in 1..Len(steps) :
        i < j /\ j < k /\ steps[i] = a /\ steps[j] = b /\ steps[k] = c

\* C8 (as stated): a run of the application resolves the settings (app.py
\* line 11), then declares the stack (line 13), then synthesizes (line 15);
\* the object the stack definition reads exists before the stack code runs.
C8_AsClaimed ==
    (run = "app" /\ pc \notin {"app:4", "app:5", "test_stack:8"}) =>
        /\ InOrder("app:11", "app:13", "app:15")
        /\ obj.status = "ok"

\* C9 (as stated): the Synth step checks the tag out before the install and
\* build commands when GIT_TAG is non-empty, runs no checkout when it is
\* empty, and in both cases runs npm install, pip install, cdk synth in order.
C9_AsClaimed ==
    (run = "codebuild" /\ pc \in {"SUCCEEDED", "FAILED"}) =>
        ran = (IF gitTag # "" THEN <<"git checkout">> ELSE <<>>)
                \o <<"npm install -g aws-cdk", "pip install -r requirements.txt",
                      "cdk synth">>

\* C10 (as stated): every attribute the stack definition reads is a field
\* of the Settings object, so no read fails on a missing attribute.
C10_AsClaimed ==
    (Constructed /\ cls.name = "Settings") =>
        TestStackReads \subseteq DOMAIN obj.values

====
